---- MODULE Spec2Model ----
(***************************************************************************)
(* A model of the quiz-chain solver: solve_quiz (src/solver.py), the loop  *)
(* that visits a link, extracts the task, solves it, submits the answer    *)
(* and decides to retry, advance or stop; and exec_py (src/tools.py), the  *)
(* restricted code executor the solving agent calls; run_quiz              *)
(* (src/main.py), the POST /run handler that starts a chain; and two       *)
(* solve_quiz invocations interleaved on one event loop.                   *)
(***************************************************************************)
EXTENDS Integers, Sequences, FiniteSets, TLC

VARIABLES
    pc,                        \* position of solve_quiz in its loop, or how it ended
    current_url,               \* solver.py:22
    retry_count,               \* solver.py:34
    previously_tried_answers,  \* solver.py:35
    elapsed,                   \* time.time() - start_time (solver.py:36, 273, 280, 300)
    error_retry_count,         \* local of solve_quiz, first bound at solver.py:267/290/297
    next_url,                  \* local of solve_quiz, first bound at solver.py:270/294
    prev_tried_str,            \* local of solve_quiz, first bound at solver.py:125
    bound,                     \* which of the late-bound locals are bound so far
    answer,                    \* solver.py:237/240
    response,                  \* the parsed view of response_text, solver.py:259-264
    decision,                  \* the branch of the decision block taken last
    parse_failures,            \* consecutive unparseable responses seen so far
    context,                   \* solver.py:65-69: the page content the visit returned, "" if none
    json_match,                \* solver.py:97-98: a JSON object was found in the extraction response
    answer_str,                \* solver.py:233: the solving agent's last message, stripped
    code,                      \* exec_py: the fragment passed in
    ret,                       \* exec_py: the returned string, or the escaped exception
    safe_globals,              \* exec_py: the names the last call has bound in its namespace
    bound_before,              \* exec_py: a call before the last one bound `result`
    EXPECTED_SECRET,           \* main.py:57
    request,                   \* the body of the last POST /run
    http_response,             \* the answer to the last POST /run
    background_tasks,          \* the solve_quiz calls handed to add_task, main.py:83
    task_state,                \* how far each of these calls has got
    running,                   \* the solve_quiz invocation whose locals are the variables above
    parked,                    \* the locals of the other invocation, suspended at an await
    steps,                     \* loop steps the running invocation has taken
    log_files,                 \* the log directory: what app.jsonl (0) and app.jsonl.i (i) hold
    written,                   \* log contents written so far
    upc,                       \* position of start_periodic_upload in its cycle
    all_files,                 \* background_logger.py:67: the rotated files still to handle
    repo                       \* the contents uploaded to the dataset

solverVars == <<pc, current_url, retry_count, previously_tried_answers, elapsed,
                error_retry_count, next_url, prev_tried_str, bound, answer, response,
                decision, parse_failures, context, json_match, answer_str>>
execVars == <<code, ret, safe_globals, bound_before>>
runVars == <<EXPECTED_SECRET, request, http_response, background_tasks, task_state>>
chainVars == <<running, parked>>
uploadVars == <<log_files, written, upc, all_files, repo>>
\* what a step of solve_quiz cannot touch
otherVars == <<execVars, runVars, chainVars, uploadVars>>
vars == <<solverVars, steps, context, json_match, answer_str, otherVars>>

----------------------------------------------------------------------------
(* Bounds of the model *)

\* the elapsed time of a link is followed up to MaxElapsed seconds and stays there:
\* every test the program makes on it is false from 150 s on
MaxElapsed == 160
\* wrong-answer retries followed on one link (the program itself has no such cap
\* when next_url is blank)
MaxRetryCount == 5
\* longest fragment handed to exec_py
MaxStmts == 2
\* POST /run requests that are accepted and scheduled
MaxRequests == 2
\* loop steps followed for each of two interleaved invocations
MaxSteps == 10
\* rotated log files kept (logger_config.py:29 keeps 10)
MaxBackups == 2
\* log contents written in all
MaxLogs == 5

(* Program constants *)

\* solver.py:284  time_taken < 150
RetryTimeLimit == 150
\* solver.py:284  retry_count < 3
MaxRetries == 3
\* solver.py:284  approx_time_if_retry < 180
ProjectedTimeLimit == 180
\* solver.py:306  error_retry_count < 5
MaxErrorRetries == 5

----------------------------------------------------------------------------
(* Python values *)

\* Python's None, as the value of response_json.get("url") when the key is absent
None == "<None>"
\* a url string made of whitespace only: truthy, but url.strip() == ''
Blank == " "
Urls == {"A", "B"}
\* every value response_json.get("url") takes in the model
UrlValues == {None, "", Blank} \cup Urls
StartUrls == {"A"}
Answers == {"a1"}
Reasons == {"wrong"}
\* seconds one external call (page visit, solving agent) may take
Durations == {10, 100, 160}

\* a truth test that only asks whether the value is None
TruthyIsNotNone(u) == u # None

\* bool(x) of a url value: None and '' are falsy
Truthy(u) == u \notin {None, ""}
\* str.strip() on the url values of the model
Strip(u) == IF u = Blank THEN "" ELSE u

\* the view solve_quiz takes of response_text: whether json.loads and the .get
\* calls succeed, and then the fields it reads
NoResponse == [parses |-> FALSE, correct |-> FALSE, url |-> None, reason |-> "wrong"]
Responses ==
    {NoResponse} \cup
    [parses : {TRUE}, correct : BOOLEAN, url : UrlValues, reason : Reasons]

----------------------------------------------------------------------------
(* exec_py, tools.py:296-558 *)

\* the values a fragment computes with
IntVal(i) == [type |-> "int", int |-> i, str |-> ""]
StrVal(t) == [type |-> "str", int |-> 0, str |-> t]
NoneVal == [type |-> "NoneType", int |-> 0, str |-> ""]
\* a name of the namespace that holds no value
Unset == [type |-> "unset", int |-> 0, str |-> ""]

Digits == <<"0", "1", "2", "3", "4", "5", "6", "7", "8", "9">>
RECURSIVE NatToStr(_)
NatToStr(n) == IF n < 10 THEN Digits[n + 1]
               ELSE NatToStr(n \div 10) \o Digits[(n % 10) + 1]

\* Python's str(v)
Str(v) ==
    CASE v.type = "int" -> IF v.int < 0 THEN "-" \o NatToStr(-v.int) ELSE NatToStr(v.int)
      [] v.type = "str" -> v.str
      [] v.type = "NoneType" -> "None"

\* expressions of a fragment: a literal, or the sum of two integer literals
Lit(v) == [kind |-> "lit", val |-> v, l |-> 0, r |-> 0]
Add(a, b) == [kind |-> "add", val |-> NoneVal, l |-> a, r |-> b]
Exprs == {Add(2, 2), Lit(IntVal(12)), Lit(NoneVal), Lit(StrVal("ok")),
          Lit(StrVal("import os"))}
Eval(e) == IF e.kind = "add" THEN IntVal(e.l + e.r) ELSE e.val

\* statements of a fragment:
\*   assign  name = expr
\*   pass    a statement that binds nothing
\*   raise   a statement that fails at run time with an Exception (1/0, open of a
\*           missing file)
\*   exit    sys.exit(): raises SystemExit, which is no subclass of Exception
\*   import  `import os`
\*   import_tab  an import statement whose text has no "import " in it: the
\*           keyword followed by a tab (`import\tos`) or by `*` (`from os import*`)
Names == {"result", "x"}
Assign(n, e) == [op |-> "assign", name |-> n, expr |-> e]
Simple(o) == [op |-> o, name |-> "", expr |-> Lit(NoneVal)]
Stmts ==
    {Assign("result", e) : e \in Exprs} \cup {Assign("x", Lit(IntVal(12)))}
    \cup {Simple("pass"), Simple("raise"), Simple("exit"), Simple("import"),
          Simple("import_tab")}
Fragments == UNION {[1..n -> Stmts] : n \in 0..MaxStmts}

\* whether the text of a statement holds the substring "import "
HasImportText(st) ==
    \/ st.op = "import"
    \/ st.op = "assign" /\ st.expr.kind = "lit" /\ st.expr.val = StrVal("import os")

\* tools.py:346: "import " in code
ImportInCode(c) == \E i \in 1..Len(c) : HasImportText(c[i])

\* tools.py:347
RejectedMessage == "Rejected: import statements are not allowed."
\* tools.py:556
NoResultMessage == "Code executed successfully, but no 'result' variable was set."

\* what a call of exec_py gives its caller
Returned(t) == [kind |-> "returned", text |-> t]
Escaped(e) == [kind |-> "raised", text |-> e]
NotCalled == [kind |-> "none", text |-> ""]

\* the namespace exec() runs the fragment in, tools.py:472-552: no fragment name bound
SafeGlobals == [n \in Names |-> Unset]

\* tools.py:554: exec(code, safe_globals), statement by statement from index i;
\* gives the namespace at the end and how the run ended
RECURSIVE Exec(_, _, _)
Exec(c, i, g) ==
    IF i > Len(c) THEN [globals |-> g, end |-> "completed"]
    ELSE CASE c[i].op = "assign" ->
                Exec(c, i + 1, [g EXCEPT ![c[i].name] = Eval(c[i].expr)])
           [] c[i].op = "pass" -> Exec(c, i + 1, g)
           [] c[i].op = "raise" -> [globals |-> g, end |-> "Exception"]
           \* __import__ is not among safe_builtins: ImportError
           [] c[i].op = "import" -> [globals |-> g, end |-> "Exception"]
           [] c[i].op = "import_tab" -> [globals |-> g, end |-> "Exception"]
           [] c[i].op = "exit" -> [globals |-> g, end |-> "SystemExit"]

\* a lookup without the default: the missing key surfaces as an error text
ResultTextKeyError(g) == IF g["result"] = Unset THEN "Error: 'result'" ELSE Str(g["result"])

\* tools.py:556: str(safe_globals.get("result", <message>))
ResultText(g) == IF g["result"] = Unset THEN NoResultMessage ELSE Str(g["result"])

\* a namespace kept from call to call: the one the last call left
NamespaceKept(g) == g

\* tools.py:472: the namespace of a call is a dict built in that call, whatever
\* namespace g the call before has left
Namespace(g) == SafeGlobals

\* tools.py:296-558, called when the namespace of the call before is g
exec_py_after(c, g) ==
    IF ImportInCode(c) THEN Returned(RejectedMessage)
    ELSE LET run == Exec(c, 1, Namespace(g))
         IN CASE run.end = "completed" -> Returned(ResultText(run.globals))
              \* tools.py:557-558: except Exception
              [] run.end = "Exception" -> Returned("Error: " \o "exception")
              [] run.end = "SystemExit" -> Escaped("SystemExit")

\* tools.py:296-558: a call of exec_py, taken by itself
exec_py(c) == exec_py_after(c, SafeGlobals)

----------------------------------------------------------------------------
\* the names in the log directory: 0 is the active file app.jsonl, i is the
\* rotated file app.jsonl.i
LogNames == 0..MaxBackups
\* no file of that name
NoFile == 0

\* the locals of a solve_quiz invocation that has not run yet, as one record
\* (solver.py:22, 34-36)
NewFrame(u) ==
    [pc |-> "fetch", current_url |-> u, retry_count |-> 0,
     previously_tried_answers |-> <<>>, elapsed |-> 0, error_retry_count |-> 0,
     next_url |-> None, prev_tried_str |-> <<>>, bound |-> {}, answer |-> "a1",
     response |-> NoResponse, decision |-> "none", parse_failures |-> 0,
     context |-> "", json_match |-> FALSE, answer_str |-> "",
     steps |-> 0]

\* the service before any request: no request, no answer, nothing scheduled
NoRequest == [valid |-> FALSE, email |-> "", secret |-> "", url |-> ""]
NoHttp == [status |-> 0, message |-> ""]

InitLocals ==
    /\ pc = "fetch"
    /\ current_url \in StartUrls
    /\ retry_count = 0
    /\ previously_tried_answers = <<>>
    /\ elapsed = 0
    /\ error_retry_count = 0
    /\ next_url = None
    /\ prev_tried_str = <<>>
    /\ bound = {}
    /\ answer = "a1"
    /\ response = NoResponse
    /\ decision = "none"
    /\ parse_failures = 0
    /\ context = ""
    /\ json_match = FALSE
    /\ answer_str = ""
    /\ code = <<>>
    /\ ret = NotCalled
    /\ safe_globals = SafeGlobals
    /\ bound_before = FALSE
    /\ steps = 0
    /\ running = 1
    /\ parked = NewFrame("A")
    /\ request = NoRequest
    /\ http_response = NoHttp
    /\ background_tasks = <<>>
    /\ task_state = <<>>
    /\ log_files = [n \in LogNames |-> IF n = 0 THEN 1 ELSE NoFile]
    /\ written = 1
    /\ upc = "sleep"
    /\ all_files = <<>>
    /\ repo = {}

Init == InitLocals /\ EXPECTED_SECRET = "s1"

----------------------------------------------------------------------------
(* solve_quiz, one loop iteration: steps 1-3, visit and extraction *)

\* time.time() - start_time after an external call that took d seconds
Elapse(d) == IF elapsed + d > MaxElapsed THEN MaxElapsed ELSE elapsed + d

\* solver.py:37-75: the extraction agent visits the page; no context ends the loop
Fetch ==
    /\ pc = "fetch"
    /\ Truthy(current_url)
    /\ \E d \in Durations, got \in BOOLEAN :
        /\ elapsed' = Elapse(d)
        /\ context' = IF got THEN "page" ELSE ""
        /\ pc' = IF got THEN "extract" ELSE "ABORTED"
    /\ UNCHANGED <<current_url, retry_count, previously_tried_answers,
                   error_retry_count, next_url, prev_tried_str, bound, answer,
                   response, decision, parse_failures, json_match, answer_str, otherVars>>

\* solver.py:59: agent.ainvoke raises (no handler around it)
FetchRaises ==
    /\ pc = "fetch"
    /\ Truthy(current_url)
    /\ pc' = "RAISED"
    /\ UNCHANGED <<current_url, retry_count, previously_tried_answers, elapsed,
                   error_retry_count, next_url, prev_tried_str, bound, answer,
                   response, decision, parse_failures, context, json_match, answer_str, otherVars>>

\* an extraction step that goes on to solving whatever it found
ExtractKeepsGoing ==
    /\ pc = "extract"
    /\ \E found \in BOOLEAN : json_match' = found
    /\ pc' = "solve"
    /\ UNCHANGED <<current_url, retry_count, previously_tried_answers, elapsed,
                   error_retry_count, next_url, prev_tried_str, bound, answer,
                   response, decision, parse_failures, context, answer_str, otherVars>>

\* solver.py:85-117: a JSON object in the extraction response, or the loop ends
Extract ==
    /\ pc = "extract"
    /\ \E found \in BOOLEAN :
        /\ json_match' = found
        /\ pc' = IF found THEN "solve" ELSE "ABORTED"
    /\ UNCHANGED <<current_url, retry_count, previously_tried_answers, elapsed,
                   error_retry_count, next_url, prev_tried_str, bound, answer,
                   response, decision, parse_failures, context, answer_str, otherVars>>

(* step 4, solving *)

\* solver.py:122-125: the text of the tried answers put into the solving prompt
PrevTriedStr(old, tried) == IF Len(tried) > 0 THEN old \o tried ELSE <<>>

\* str.strip(): leading and trailing whitespace removed
Whitespace == {" ", "\n", "\t"}
RECURSIVE LStrip(_)
LStrip(t) ==
    IF Len(t) > 0 /\ SubSeq(t, 1, 1) \in Whitespace
    THEN LStrip(SubSeq(t, 2, Len(t)))
    ELSE t
RECURSIVE RStrip(_)
RStrip(t) ==
    IF Len(t) > 0 /\ SubSeq(t, Len(t), Len(t)) \in Whitespace
    THEN RStrip(SubSeq(t, 1, Len(t) - 1))
    ELSE t
StripText(t) == RStrip(LStrip(t))

\* JSON documents the solving agent may write
JStr(v) == [type |-> "string", s |-> v]
JNull == [type |-> "null"]
JNum(t) == [type |-> "number", text |-> t]
JList == [type |-> "list"]
JObj(f) == [type |-> "object", fields |-> f]
Keys == {"answer", "note"}
FieldValues == {JStr(a) : a \in Answers} \cup {JNull}
JsonObjects == {JObj(f) : f \in UNION {[K -> FieldValues] : K \in SUBSET Keys}}
JsonDocs == JsonObjects \cup {JStr(a) : a \in Answers} \cup {JNull, JNum("4"), JList}

\* the text of a document that is no object
DumpsScalar(v) ==
    CASE v.type = "string" -> "\"" \o v.s \o "\""
      [] v.type = "null" -> "null"
      [] v.type = "number" -> v.text
      [] v.type = "list" -> "[]"
\* one "key": value member of an object, "" when the key is absent
DumpsMember(f, k) ==
    IF k \in DOMAIN f THEN "\"" \o k \o "\": " \o DumpsScalar(f[k]) ELSE ""
\* the JSON text of a document
Dumps(v) ==
    IF v.type = "object"
    THEN "{" \o DumpsMember(v.fields, "answer")
             \o (IF DOMAIN v.fields = Keys THEN ", " ELSE "")
             \o DumpsMember(v.fields, "note") \o "}"
    ELSE DumpsScalar(v)

\* texts that are no JSON
NotJson == {"a1", "answer: a1", "", "{answer: a1}"}
\* what the last message of the solving agent may hold, with or without
\* whitespace around it
BareTexts == {Dumps(d) : d \in JsonDocs} \cup NotJson
SolverOutputs == BareTexts \cup {" " \o t \o "\n" : t \in BareTexts}
\* the output the solving prompt asks for
PlainOutputs == {Dumps(JObj([k \in {"answer"} |-> JStr(a)])) : a \in Answers}

\* json.loads: the document the text is the JSON of, or a failure
JsonError == [type |-> "error"]
Loads(t) ==
    IF \E d \in JsonDocs : Dumps(d) = t
    THEN CHOOSE d \in JsonDocs : Dumps(d) = t
    ELSE JsonError
\* the Python value of a JSON string or null
PyValue(v) == IF v.type = "null" THEN None ELSE v.s

\* solver.py:233-240: answer_json.get("answer") when the stripped text is a JSON
\* object (None when it has no such key); the stripped text itself when
\* json.loads or .get raises
ReadAnswer(text) ==
    LET stripped == StripText(text)
        answer_json == Loads(stripped)
    IN  IF answer_json.type = "object"
        THEN IF "answer" \in DOMAIN answer_json.fields
             THEN PyValue(answer_json.fields["answer"])
             ELSE None
        ELSE stripped

\* solver.py:119-241: build the prompt, run the solving agent, read its answer;
\* outs are the texts the agent's last message may hold
SolveFrom(outs) ==
    /\ pc = "solve"
    /\ IF Len(previously_tried_answers) > 0 /\ "prev_tried_str" \notin bound
       THEN \* solver.py:123: += on a local that was never bound
            /\ pc' = "RAISED"
            /\ UNCHANGED <<prev_tried_str, bound, answer, elapsed, answer_str>>
       ELSE /\ prev_tried_str' = PrevTriedStr(prev_tried_str, previously_tried_answers)
            /\ bound' = bound \cup {"prev_tried_str"}
            /\ \E d \in Durations, out \in outs :
                /\ elapsed' = Elapse(d)
                /\ answer_str' = StripText(out)
                /\ answer' = ReadAnswer(out)
            /\ pc' = "submit"
    /\ UNCHANGED <<current_url, retry_count, previously_tried_answers,
                   error_retry_count, next_url, response, decision, parse_failures,
                   context, json_match, otherVars>>

\* the solving step when the agent answers in the format the prompt asks for
Solve == SolveFrom(PlainOutputs)

\* solver.py:229: agent.ainvoke raises (no handler around it)
SolveRaises ==
    /\ pc = "solve"
    /\ pc' = "RAISED"
    /\ UNCHANGED <<current_url, retry_count, previously_tried_answers, elapsed,
                   error_retry_count, next_url, prev_tried_str, bound, answer,
                   response, decision, parse_failures, context, json_match, answer_str, otherVars>>

(* step 5, submission *)

\* solver.py:243-260 with tools.py:266-290: submit_answer returns a text, never raises
Submit ==
    /\ pc = "submit"
    /\ \E r \in Responses : response' = r
    /\ pc' = "decide"
    /\ UNCHANGED <<current_url, retry_count, previously_tried_answers, elapsed,
                   error_retry_count, next_url, prev_tried_str, bound, answer,
                   decision, parse_failures, context, json_match, answer_str, otherVars>>

(* the decision block, solver.py:262-311 *)

\* solver.py:279-280: time_taken = end_time - start_time
TimeTaken == elapsed

\* solver.py:282-284: approx_time_if_retry < 180, where approx_time_if_retry is
\* t + t/(rc+1) in real arithmetic; multiplied through by rc+1 > 0
ProjectedUnderLimit(t, rc) == t * (rc + 2) < ProjectedTimeLimit * (rc + 1)

\* a three-way condition without the projected-time test
QuickFailureNoProjection(t, rc) ==
    /\ t < RetryTimeLimit
    /\ rc < MaxRetries

\* solver.py:284, first disjunct: the three-way time/count condition
QuickFailure(t, rc) ==
    /\ t < RetryTimeLimit
    /\ rc < MaxRetries
    /\ ProjectedUnderLimit(t, rc)

\* solver.py:284: the whole test, evaluated left to right with short-circuit `or`.
\* next_url here is the local left by an earlier outcome (lines 270, 294); reading
\* it before any assignment raises UnboundLocalError.
RetryTest(t, rc) ==
    IF QuickFailure(t, rc) THEN "retry"
    ELSE IF "next_url" \notin bound THEN "unbound"
    ELSE IF next_url = None THEN "retry"
    ELSE IF Strip(next_url) = "" THEN "retry"
    ELSE "move"

\* solver.py:286-288: the entry appended for a retried wrong answer
TriedEntry == [answer |-> answer, reason |-> response.reason]

\* solver.py:304-311: the handler of `except Exception`; error_retry_count is read
\* before any assignment when no outcome was decided before (UnboundLocalError
\* leaves the handler and the function)
ExceptHandler ==
    IF "error_retry_count" \notin bound
    THEN /\ pc' = "RAISED"
         /\ decision' = "raised"
         /\ UNCHANGED error_retry_count
    ELSE IF error_retry_count < MaxErrorRetries
    THEN /\ error_retry_count' = error_retry_count + 1
         /\ pc' = "fetch"
         /\ decision' = "error_retry"
    ELSE /\ pc' = "ABORTED"
         /\ decision' = "error_abort"
         /\ UNCHANGED error_retry_count

\* a correct branch that forgets to clear the retry counter
ResetOnCorrectKeepsCount ==
    /\ UNCHANGED retry_count
    /\ error_retry_count' = 0
    /\ previously_tried_answers' = <<>>

\* a correct branch that forgets to clear the tried answers
ResetOnCorrectKeepsTried ==
    /\ retry_count' = 0
    /\ error_retry_count' = 0
    /\ UNCHANGED previously_tried_answers

\* solver.py:266-268: the counters and the tried answers are cleared
ResetOnCorrect ==
    /\ retry_count' = 0
    /\ error_retry_count' = 0
    /\ previously_tried_answers' = <<>>

\* solver.py:265-276: a correct outcome
DecideCorrect ==
    /\ pc = "decide"
    /\ response.parses /\ response.correct
    /\ ResetOnCorrect
    /\ next_url' = response.url
    /\ bound' = bound \cup {"error_retry_count", "next_url"}
    /\ IF Truthy(response.url)
       THEN /\ current_url' = response.url
            /\ elapsed' = 0
            /\ pc' = "fetch"
            /\ decision' = "correct_advance"
       ELSE /\ pc' = "DONE"
            /\ decision' = "correct_done"
            /\ UNCHANGED <<current_url, elapsed>>
    /\ parse_failures' = 0
    /\ UNCHANGED <<prev_tried_str, answer, response, context, json_match, answer_str, otherVars>>

\* a retry that also restarts the timer of the link
DecideRetryRestartsTimer ==
    /\ pc = "decide"
    /\ response.parses /\ ~response.correct
    /\ RetryTest(TimeTaken, retry_count) = "retry"
    /\ retry_count < MaxRetryCount
    /\ retry_count' = retry_count + 1
    /\ previously_tried_answers' = Append(previously_tried_answers, TriedEntry)
    /\ error_retry_count' = 0
    /\ bound' = bound \cup {"error_retry_count"}
    /\ pc' = "fetch"
    /\ decision' = "retry"
    /\ parse_failures' = 0
    /\ elapsed' = 0
    /\ UNCHANGED <<current_url, next_url, prev_tried_str, answer, response, context, json_match, answer_str, otherVars>>

\* solver.py:277-291: a wrong outcome that is retried on the same link
DecideRetry ==
    /\ pc = "decide"
    /\ response.parses /\ ~response.correct
    /\ RetryTest(TimeTaken, retry_count) = "retry"
    /\ retry_count < MaxRetryCount
    /\ retry_count' = retry_count + 1
    /\ previously_tried_answers' = Append(previously_tried_answers, TriedEntry)
    /\ error_retry_count' = 0
    /\ bound' = bound \cup {"error_retry_count"}
    /\ pc' = "fetch"
    /\ decision' = "retry"
    /\ parse_failures' = 0
    /\ UNCHANGED <<current_url, elapsed, next_url, prev_tried_str, answer,
                   response, context, json_match, answer_str, otherVars>>

\* solver.py:292-303: a wrong outcome that is not retried
DecideMove ==
    /\ pc = "decide"
    /\ response.parses /\ ~response.correct
    /\ RetryTest(TimeTaken, retry_count) = "move"
    /\ next_url' = response.url
    /\ previously_tried_answers' = <<>>
    /\ retry_count' = 0
    /\ error_retry_count' = 0
    /\ bound' = bound \cup {"error_retry_count", "next_url"}
    /\ IF Truthy(response.url)
       THEN /\ current_url' = response.url
            /\ elapsed' = 0
            /\ pc' = "fetch"
            /\ decision' = "wrong_advance"
       ELSE /\ pc' = "DONE"
            /\ decision' = "wrong_done"
            /\ UNCHANGED <<current_url, elapsed>>
    /\ parse_failures' = 0
    /\ UNCHANGED <<prev_tried_str, answer, response, context, json_match, answer_str, otherVars>>

\* solver.py:284 raising UnboundLocalError inside the try block: caught at line 304
DecideUnbound ==
    /\ pc = "decide"
    /\ response.parses /\ ~response.correct
    /\ RetryTest(TimeTaken, retry_count) = "unbound"
    /\ ExceptHandler
    /\ parse_failures' = 0
    /\ UNCHANGED <<current_url, retry_count, previously_tried_answers, elapsed,
                   next_url, prev_tried_str, bound, answer, response, context, json_match, answer_str, otherVars>>

\* solver.py:264 raising on a response text that is no JSON object: caught at line 304
DecideUnparsed ==
    /\ pc = "decide"
    /\ ~response.parses
    /\ ExceptHandler
    /\ parse_failures' = parse_failures + 1
    /\ UNCHANGED <<current_url, retry_count, previously_tried_answers, elapsed,
                   next_url, prev_tried_str, bound, answer, response, context, json_match, answer_str, otherVars>>

Next ==
    \/ Fetch /\ UNCHANGED steps
    \/ FetchRaises /\ UNCHANGED steps
    \/ Extract /\ UNCHANGED steps
    \/ Solve /\ UNCHANGED steps
    \/ SolveRaises /\ UNCHANGED steps
    \/ Submit /\ UNCHANGED steps
    \/ DecideCorrect /\ UNCHANGED steps
    \/ DecideRetry /\ UNCHANGED steps
    \/ DecideMove /\ UNCHANGED steps
    \/ DecideUnbound /\ UNCHANGED steps
    \/ DecideUnparsed /\ UNCHANGED steps

Spec == Init /\ [][Next]_vars

\* the solving step with whatever text the agent may write
SolveAnyOutput == SolveFrom(SolverOutputs)

\* one loop iteration up to the decision, for every output of the solving agent
NextAnswer ==
    \/ Fetch /\ UNCHANGED steps
    \/ Extract /\ UNCHANGED steps
    \/ SolveAnyOutput /\ UNCHANGED steps
    \/ Submit /\ UNCHANGED steps

SpecAnswer == Init /\ [][NextAnswer]_vars

----------------------------------------------------------------------------
\* a call of exec_py with some fragment
ExecPy ==
    /\ \E c \in Fragments :
        /\ code' = c
        /\ ret' = exec_py_after(c, safe_globals)
        /\ safe_globals' = IF ImportInCode(c) THEN SafeGlobals
                           ELSE Exec(c, 1, Namespace(safe_globals)).globals
    /\ bound_before' = (bound_before \/ safe_globals["result"] # Unset)
    /\ UNCHANGED <<solverVars, steps, runVars, chainVars, uploadVars>>

NextExec == ExecPy

SpecExec == Init /\ [][NextExec]_vars

----------------------------------------------------------------------------
(* run_quiz, the POST /run handler (main.py) *)

Secrets == {"s1", "s2"}
\* os.getenv("STUDENT_SECRET"): the configured secret, or None when it is not set
ExpectedSecrets == {"s1", None}
\* main.py:61-67: a body that validates as QuizRequest (secret is a str, never None)
QuizRequests == [valid : {TRUE}, email : {"e"}, secret : Secrets, url : Urls]
\* a body that does not validate (here: no url)
InvalidBodies == [valid : {FALSE}, email : {"e"}, secret : Secrets, url : {""}]

\* a secret test that lets every request through
SecretMatchesAlways(req) == req.secret = req.secret

\* main.py:77: request.secret != EXPECTED_SECRET, negated
SecretMatches(req) == req.secret = EXPECTED_SECRET

\* main.py:83: the arguments of the scheduled solve_quiz call
SolveQuizCall(req) == [url |-> req.url, email |-> req.email, secret |-> req.secret]

\* main.py:69-85: run_quiz on a validated request
RunQuiz ==
    /\ Len(background_tasks) < MaxRequests
    /\ \E req \in QuizRequests :
        /\ request' = req
        /\ IF ~SecretMatches(req)
           THEN /\ http_response' = [status |-> 403, message |-> "Invalid secret"]
                /\ UNCHANGED <<background_tasks, task_state>>
           ELSE /\ background_tasks' = Append(background_tasks, SolveQuizCall(req))
                /\ task_state' = Append(task_state, "scheduled")
                /\ http_response' = [status |-> 200, message |-> "Quiz processing started"]
    /\ UNCHANGED <<EXPECTED_SECRET, solverVars, steps, execVars, chainVars, uploadVars>>

\* main.py:39-44: a body that fails validation never reaches run_quiz
InvalidJson ==
    /\ \E req \in InvalidBodies : request' = req
    /\ http_response' = [status |-> 400, message |-> "Invalid JSON payload"]
    /\ UNCHANGED <<EXPECTED_SECRET, background_tasks, task_state, solverVars, steps,
                   execVars, chainVars, uploadVars>>

\* main.py:83: after the response is sent the event loop starts a scheduled call
TaskStart ==
    /\ \E i \in 1..Len(task_state) :
        /\ task_state[i] = "scheduled"
        /\ task_state' = [task_state EXCEPT ![i] = "running"]
    /\ UNCHANGED <<EXPECTED_SECRET, request, http_response, background_tasks,
                   solverVars, steps, execVars, chainVars, uploadVars>>

\* solver.py:18-318: a started solve_quiz call comes to its end
TaskFinish ==
    /\ \E i \in 1..Len(task_state) :
        /\ task_state[i] = "running"
        /\ task_state' = [task_state EXCEPT ![i] = "finished"]
    /\ UNCHANGED <<EXPECTED_SECRET, request, http_response, background_tasks,
                   solverVars, steps, execVars, chainVars, uploadVars>>

InitRun == InitLocals /\ EXPECTED_SECRET \in ExpectedSecrets

NextRun ==
    \/ RunQuiz
    \/ InvalidJson
    \/ TaskStart
    \/ TaskFinish

SpecRun == InitRun /\ [][NextRun]_vars

----------------------------------------------------------------------------
(* start_periodic_upload (background_logger.py) and the rotating log handler *)
(* (logger_config.py:46-48) it shares the log directory with                 *)

\* RotatingFileHandler.doRollover: app.jsonl.i becomes app.jsonl.(i+1), the last
\* one is dropped, app.jsonl becomes app.jsonl.1 and a new app.jsonl is begun
Rotated(files, new) ==
    [n \in LogNames |->
        IF n = 0 THEN new
        ELSE IF n = 1 THEN files[0]
        ELSE IF files[n - 1] # NoFile THEN files[n - 1]
        ELSE IF n = MaxBackups THEN files[n]
        ELSE NoFile]

\* glob.glob(log_dir/app.jsonl.*), background_logger.py:66-67
RECURSIVE Glob(_, _)
Glob(files, n) ==
    IF n > MaxBackups THEN <<>>
    ELSE IF files[n] # NoFile THEN <<n>> \o Glob(files, n + 1)
    ELSE Glob(files, n + 1)

\* a log record written by another thread (a tool run in the executor) fills
\* app.jsonl and the handler rolls over; this can happen at any moment,
\* also while upload_file is in progress
Rollover ==
    /\ written < MaxLogs
    /\ written' = written + 1
    /\ log_files' = Rotated(log_files, written + 1)
    /\ UNCHANGED <<upc, all_files, repo, solverVars, steps, execVars, runVars, chainVars>>

\* background_logger.py:43-67: the sleep ends, a stale active file is rolled
\* over (48-61), and the rotated files are listed
StartCycle ==
    /\ upc = "sleep"
    /\ \E stale \in BOOLEAN :
        LET files == IF stale /\ written < MaxLogs
                     THEN Rotated(log_files, written + 1) ELSE log_files
        IN  /\ log_files' = files
            /\ written' = IF stale /\ written < MaxLogs THEN written + 1 ELSE written
            /\ all_files' = Glob(files, 1)
            /\ upc' = IF Glob(files, 1) = <<>> THEN "sleep" ELSE "upload"
    /\ UNCHANGED <<repo, solverVars, steps, execVars, runVars, chainVars>>

\* what follows the handling of one file: the next file, or the next sleep
AfterFile == IF Len(all_files) > 1 THEN "upload" ELSE "sleep"

\* background_logger.py:69-89, 96-97: upload_file on the next rotated file; it
\* raises when the upload fails or the file is gone, and the file is then left
Upload ==
    /\ upc = "upload"
    /\ LET file_path == Head(all_files)
       IN  \E ok \in BOOLEAN :
            IF ok /\ file_path # 0 /\ log_files[file_path] # NoFile
            THEN /\ repo' = repo \cup {log_files[file_path]}
                 /\ upc' = "remove"
                 /\ UNCHANGED all_files
            ELSE /\ all_files' = Tail(all_files)
                 /\ upc' = AfterFile
                 /\ UNCHANGED repo
    /\ UNCHANGED <<log_files, written, solverVars, steps, execVars, runVars, chainVars>>

\* background_logger.py:91-97: os.remove(file_path) after the upload returned
\* (a file that is gone raises, which is caught)
Remove ==
    /\ upc = "remove"
    /\ log_files' = [log_files EXCEPT ![Head(all_files)] = NoFile]
    /\ all_files' = Tail(all_files)
    /\ upc' = AfterFile
    /\ UNCHANGED <<written, repo, solverVars, steps, execVars, runVars, chainVars>>

NextUpload ==
    \/ Rollover
    \/ StartCycle
    \/ Upload
    \/ Remove

SpecUpload == Init /\ [][NextUpload]_vars

----------------------------------------------------------------------------
(* Two solve_quiz invocations on one event loop. Each is a coroutine with its *)
(* own locals; the loop runs one of them until it awaits (solver.py:59, 229)  *)
(* or ends, and then may resume the other.                                    *)

\* positions at which solve_quiz is suspended in `await agent.ainvoke`
AwaitPoints == {"fetch", "solve"}
\* positions at which solve_quiz has ended
Ended == {"DONE", "ABORTED", "RAISED"}

\* the locals of the running invocation, as one record
Frame ==
    [pc |-> pc, current_url |-> current_url, retry_count |-> retry_count,
     previously_tried_answers |-> previously_tried_answers, elapsed |-> elapsed,
     error_retry_count |-> error_retry_count, next_url |-> next_url,
     prev_tried_str |-> prev_tried_str, bound |-> bound, answer |-> answer,
     response |-> response, decision |-> decision,
     parse_failures |-> parse_failures, context |-> context,
     json_match |-> json_match, answer_str |-> answer_str, steps |-> steps]

\* one more loop step of the running invocation
Tick == steps < MaxSteps /\ steps' = steps + 1

\* a switch in which retry_count is one counter shared by all invocations
SwitchSharedRetryCount ==
    /\ pc \in AwaitPoints \cup Ended
    /\ parked.pc \notin Ended
    /\ parked' = Frame
    /\ running' = 3 - running
    /\ pc' = parked.pc
    /\ current_url' = parked.current_url
    /\ UNCHANGED retry_count
    /\ previously_tried_answers' = parked.previously_tried_answers
    /\ elapsed' = parked.elapsed
    /\ error_retry_count' = parked.error_retry_count
    /\ next_url' = parked.next_url
    /\ prev_tried_str' = parked.prev_tried_str
    /\ bound' = parked.bound
    /\ answer' = parked.answer
    /\ response' = parked.response
    /\ decision' = parked.decision
    /\ parse_failures' = parked.parse_failures
    /\ context' = parked.context
    /\ json_match' = parked.json_match
    /\ answer_str' = parked.answer_str
    /\ steps' = parked.steps
    /\ UNCHANGED <<execVars, runVars, uploadVars>>

\* solver.py:59, 229: the running invocation awaits (or has ended) and the event
\* loop resumes the other one, whose locals are as it left them
Switch ==
    /\ pc \in AwaitPoints \cup Ended
    /\ parked.pc \notin Ended
    /\ parked' = Frame
    /\ running' = 3 - running
    /\ pc' = parked.pc
    /\ current_url' = parked.current_url
    /\ retry_count' = parked.retry_count
    /\ previously_tried_answers' = parked.previously_tried_answers
    /\ elapsed' = parked.elapsed
    /\ error_retry_count' = parked.error_retry_count
    /\ next_url' = parked.next_url
    /\ prev_tried_str' = parked.prev_tried_str
    /\ bound' = parked.bound
    /\ answer' = parked.answer
    /\ response' = parked.response
    /\ decision' = parked.decision
    /\ parse_failures' = parked.parse_failures
    /\ context' = parked.context
    /\ json_match' = parked.json_match
    /\ answer_str' = parked.answer_str
    /\ steps' = parked.steps
    /\ UNCHANGED <<execVars, runVars, uploadVars>>

NextChains ==
    \/ Fetch /\ Tick
    \/ FetchRaises /\ Tick
    \/ Extract /\ Tick
    \/ Solve /\ Tick
    \/ SolveRaises /\ Tick
    \/ Submit /\ Tick
    \/ DecideCorrect /\ Tick
    \/ DecideRetry /\ Tick
    \/ DecideMove /\ Tick
    \/ DecideUnbound /\ Tick
    \/ DecideUnparsed /\ Tick
    \/ Switch

SpecChains == Init /\ [][NextChains]_vars

----------------------------------------------------------------------------
(* Properties of the decision block *)

\* a submission response that parsed with correct=false is about to be decided
WrongOutcome == pc = "decide" /\ response.parses /\ ~response.correct

\* the decisions after which the same link is visited, solved and submitted again
SameLinkAgain == {"retry", "error_retry"}
\* the decisions that leave the link: advance to the outcome's url, or stop
AdvanceOrStop == {"wrong_advance", "wrong_done"}

\* the three-way condition as the design states it
AllThreeHold ==
    /\ TimeTaken < 150
    /\ retry_count < 3
    /\ TimeTaken * (retry_count + 2) < 180 * (retry_count + 1)

\* C1: retry_count never exceeds 3, and a wrong outcome arriving when it is 3
\* forces an advance-or-stop decision instead of another attempt on the link.
C1_RetryCountBounded ==
    [][/\ retry_count' <= 3
       /\ (WrongOutcome /\ retry_count = 3) => decision' \in AdvanceOrStop]_vars

\* C2: a wrong outcome that arrives 150 s or more after the link became current
\* is never followed by another attempt on the same link, on any link.
C2_NoRetryAfter150 ==
    [][(WrongOutcome /\ TimeTaken >= 150) => decision' \notin SameLinkAgain]_vars

\* C3: a wrong outcome that carries a next url is followed by another attempt on
\* the same link exactly when the three conditions hold together.
C3_RetryIffAllThree ==
    [][(WrongOutcome /\ Truthy(response.url))
          => ((decision' \in SameLinkAgain) <=> AllThreeHold)]_vars

\* C4: a wrong outcome that carries no next url is always retried on the same
\* link, whatever the elapsed time and the retry count.
C4_RetryWhenOutcomeHasNoUrl ==
    [][(WrongOutcome /\ ~Truthy(response.url)) => decision' = "retry"]_vars

\* C5: a wrong outcome that is not retried resets the ledger and makes the
\* outcome's url the current link, or ends the chain in DONE when it has none.
C5_NonRetryResetsAndAdvances ==
    [][(WrongOutcome /\ decision' # "retry")
          => /\ retry_count' = 0
             /\ previously_tried_answers' = <<>>
             /\ IF Truthy(response.url)
                THEN current_url' = response.url /\ pc' = "fetch"
                ELSE pc' = "DONE"]_vars

\* C6: after a correct outcome the retry counter is 0 and the tried answers are
\* empty during the whole first attempt on the next link.
C6_CorrectResetsLedger ==
    decision \in {"correct_advance", "correct_done"}
        => retry_count = 0 /\ previously_tried_answers = <<>>

\* the chain has just advanced after a correct outcome on a link that had been
\* retried (the old link's tried answers are still in the prompt text)
C6_Witness ==
    /\ decision = "correct_advance"
    /\ pc = "fetch"
    /\ Len(prev_tried_str) > 0

\* C7: once a correct outcome without a next url has been decided, the chain is
\* in DONE; nothing is visited, solved or submitted after it.
C7_CorrectWithoutUrlIsDone ==
    (pc # "decide" /\ response.parses /\ response.correct /\ response.url \in {None, ""})
        => pc = "DONE"

C7_Witness ==
    /\ pc = "DONE"
    /\ decision = "correct_done"
    /\ response.correct /\ response.url = ""

\* C8: consecutive unparseable responses are retried on the same link five times
\* and the sixth ends the chain in ABORTED, wherever the run of failures starts.
C8_AbortOnSixthParseFailure ==
    (pc # "decide" /\ parse_failures > 0)
        => IF parse_failures <= 5
           THEN decision = "error_retry"
           ELSE parse_failures = 6 /\ decision = "error_abort" /\ pc = "ABORTED"

\* C9: no wrong answer and no unparseable response makes solve_quiz raise.
C9_DecisionNeverRaises == ~(pc = "RAISED" /\ decision = "raised")

\* C15: the chain is in DONE only after a correct outcome that carries no url.
C15_DoneOnlyByCorrectWithoutUrl ==
    pc = "DONE" => (response.parses /\ response.correct /\ ~Truthy(response.url))

\* C16: whenever the decision block sends the chain to a further attempt on the
\* same link, for whatever reason, that step has appended the attempt just made
\* (its answer and the reason returned) to the tried answers.
C16_AttemptRecordedBeforeNext ==
    [][(pc = "decide" /\ decision' \in SameLinkAgain)
          => previously_tried_answers'
                = Append(previously_tried_answers,
                         [answer |-> answer, reason |-> response.reason])]_vars

\* the decisions that make another link the current one
LinkChanges == {"correct_advance", "wrong_advance"}

\* C18: the decision block restarts the timer exactly when it makes the outcome's
\* url the current link (correct or non-retried wrong outcome with a url); a
\* wrong-answer retry and a parse-failure retry leave the timer as it was.
C18_TimerRestartsOnLinkChange ==
    [][pc = "decide"
          => /\ (response.parses /\ response.correct /\ Truthy(response.url))
                    => decision' = "correct_advance"
             /\ IF decision' \in LinkChanges
                THEN current_url' = response.url /\ elapsed' = 0
                ELSE current_url' = current_url /\ elapsed' = elapsed]_vars

\* link B, reached by an advance, has been retried once and again after a parse
\* failure, and its timer still runs from the advance
C18_Witness ==
    /\ decision = "error_retry"
    /\ pc = "fetch"
    /\ current_url = "B"
    /\ retry_count = 1
    /\ elapsed = 40

\* C19: the tried answers are as many as retry_count in every state, and a
\* wrong-answer retry adds one to retry_count and appends one entry.
C19_TriedMatchesRetryCount ==
    /\ Len(previously_tried_answers) = retry_count
    /\ [][/\ Len(previously_tried_answers') = retry_count'
          /\ (pc = "decide" /\ decision' = "retry")
                => /\ retry_count' = retry_count + 1
                   /\ previously_tried_answers'
                         = Append(previously_tried_answers, TriedEntry)]_vars

C19_Witness ==
    /\ decision = "retry"
    /\ retry_count = 2
    /\ Len(previously_tried_answers) = 2

\* C20: after a wrong-answer retry the chain is at the solving step: the page is
\* not visited and the task is not extracted again.
C20_RetryGoesToSolving ==
    [][(pc = "decide" /\ decision' = "retry") => pc' = "solve"]_vars

----------------------------------------------------------------------------
(* Properties of exec_py *)

\* the fragment has no statement that fails or exits
RunsToCompletion(c) == \A i \in 1..Len(c) : c[i].op \in {"assign", "pass"}
\* the statements of the fragment that bind `result`
ResultBindings(c) == {i \in 1..Len(c) : c[i].op = "assign" /\ c[i].name = "result"}
Last(S) == CHOOSE i \in S : \A j \in S : j <= i

\* C10: a fragment that runs to completion returns str() of the value it bound to
\* `result` (result = 2+2 gives "4"), and the no-result message, which is no error
\* text, when it bound none.
C10_ResultOrSentinel ==
    /\ (ret # NotCalled /\ ~ImportInCode(code) /\ RunsToCompletion(code))
          => /\ ret.kind = "returned"
             /\ IF ResultBindings(code) = {}
                THEN ret.text = "Code executed successfully, but no 'result' variable was set."
                ELSE ret.text = Str(Eval(code[Last(ResultBindings(code))].expr))
    /\ (ret # NotCalled /\ code = <<Assign("result", Add(2, 2))>>) => ret.text = "4"

\* a fragment that binds only another name has run and the message came back
C10_Witness ==
    /\ code = <<Assign("x", Lit(IntVal(12))), Simple("pass")>>
    /\ ret = Returned(NoResultMessage)

\* C11: every call of exec_py returns a string, whatever the fragment does while
\* it runs, and a fragment that fails at run time returns the "Error: " text.
C11_NeverRaises ==
    ret # NotCalled
        => /\ ret.kind = "returned"
           /\ (~ImportInCode(code) /\ ~RunsToCompletion(code))
                 => ret.text = "Error: exception"

\* the statements that ask for a module to be imported
ImportRequested(c) == \E i \in 1..Len(c) : c[i].op \in {"import", "import_tab"}

\* C12: a fragment whose text contains an import request is rejected: the call
\* returns the "Rejected: ..." text and no statement of the fragment is run.
C12_ImportRejected ==
    (ret # NotCalled /\ ImportRequested(code)) => ret = Returned(RejectedMessage)

----------------------------------------------------------------------------
(* Properties of run_quiz *)

\* a POST /run has been answered in this step
Answered ==
    \/ request' # request
    \/ http_response' # http_response
    \/ Len(background_tasks') # Len(background_tasks)

\* C13: POST /run schedules solve_quiz exactly when the request's secret equals
\* the expected secret: a mismatch is answered 403 and schedules nothing; a
\* match appends one solve_quiz call for the request, answers 200, and the call
\* is only scheduled (neither started nor finished) when the answer is given.
C13_ChainIffSecretMatches ==
    [][(Answered /\ request'.valid)
          => IF request'.secret = EXPECTED_SECRET
             THEN /\ background_tasks' = Append(background_tasks, SolveQuizCall(request'))
                  /\ task_state' = Append(task_state, "scheduled")
                  /\ http_response'.status = 200
             ELSE /\ background_tasks' = background_tasks
                  /\ task_state' = task_state
                  /\ http_response'.status = 403]_vars

\* a first request was accepted and its chain is running; a second one with a
\* wrong secret has been refused and nothing was scheduled for it
C13_Witness ==
    /\ http_response.status = 403
    /\ request.secret # EXPECTED_SECRET
    /\ Len(background_tasks) = 1
    /\ task_state = <<"running">>

----------------------------------------------------------------------------
(* Properties of interleaved invocations *)

\* the ledger of an invocation, read from its locals
LedgerOf(f) ==
    [current_url |-> f.current_url, retry_count |-> f.retry_count,
     error_retry_count |-> f.error_retry_count,
     previously_tried_answers |-> f.previously_tried_answers,
     elapsed |-> f.elapsed]

\* C14: a step of the running invocation leaves the suspended invocation's
\* current link, counters, tried answers and timer as they were, and an
\* invocation that is resumed finds them as it left them.
C14_ChainsOwnTheirLedgers ==
    [][IF running' = running
       THEN LedgerOf(parked') = LedgerOf(parked)
       ELSE /\ LedgerOf(Frame') = LedgerOf(parked)
            /\ LedgerOf(parked') = LedgerOf(Frame)]_vars

\* invocation 1 has been resumed on link A after one retry, while invocation 2
\* waits on link B with an empty ledger
C14_Witness ==
    /\ running = 1
    /\ current_url = "A" /\ retry_count = 1 /\ pc = "solve"
    /\ parked.current_url = "B" /\ parked.retry_count = 0 /\ parked.pc = "solve"

\* the suspended invocation has just decided a wrong outcome in a way that left
\* its retry count and timer readable from its locals
DecidedWrong(f) ==
    /\ f.response.parses /\ ~f.response.correct
    /\ \/ f.pc = "RAISED" /\ f.decision = "raised"
       \/ f.pc = "fetch" /\ f.decision \in {"retry", "error_retry"}
       \/ f.pc = "ABORTED" /\ f.decision = "error_abort"

\* the retry count and the time of the link from which that decision was taken
DecidedFrom(f) ==
    [retry_count |-> IF f.decision = "retry" THEN f.retry_count - 1 ELSE f.retry_count,
     elapsed |-> f.elapsed]

\* C17: an invocation that decides a wrong outcome from the same retry count and
\* elapsed time, and on the same outcome, as the other invocation did, takes the
\* same decision, on whatever link of its chain it is.
C17_SameLedgerSameDecision ==
    [][(/\ WrongOutcome
        /\ DecidedWrong(parked)
        /\ parked.response = response
        /\ DecidedFrom(parked) = [retry_count |-> retry_count, elapsed |-> TimeTaken])
          => decision' = parked.decision]_vars

----------------------------------------------------------------------------
(* Further properties of solve_quiz *)

\* C21: a response that does not parse leaves the current link, retry_count and
\* the tried answers as they were, and every response that parses, whatever is
\* decided on it, sets the parse-error counter to 0.
C21_ParseCounterIndependent ==
    [][pc = "decide"
          => IF response.parses
             THEN error_retry_count' = 0
             ELSE /\ current_url' = current_url
                  /\ retry_count' = retry_count
                  /\ previously_tried_answers' = previously_tried_answers]_vars

\* C22: once the visit has returned no page context, or the extraction response
\* held no JSON object, the chain is in ABORTED, and the step that aborts it
\* has solved nothing and submitted nothing.
C22_NoTaskAborts ==
    /\ [](/\ (pc \notin {"fetch", "RAISED"} /\ context = "") => pc = "ABORTED"
          /\ (pc \notin {"fetch", "extract", "RAISED"} /\ ~json_match) => pc = "ABORTED")
    /\ [][(pc \in {"fetch", "extract"} /\ pc' = "ABORTED")
             => (answer' = answer /\ response' = response /\ decision' = decision)]_vars

\* link B was visited, but its extraction response held no JSON object
C22_Witness ==
    /\ pc = "ABORTED"
    /\ current_url = "B"
    /\ context = "page"
    /\ ~json_match

\* the stripped output is a JSON object that has an answer field
AnswerObject(t) ==
    Loads(t).type = "object" /\ "answer" \in DOMAIN Loads(t).fields

\* C23: whatever text the solving agent returns, the step goes on to the
\* submission, and when the text is no JSON object with an answer field the
\* answer to submit is that text.
C23_MalformedOutputIsLiteral ==
    [][(pc = "solve" /\ pc' # "RAISED")
          => /\ pc' = "submit"
             /\ ~AnswerObject(answer_str') => answer' = answer_str']_vars

\* C24: the tried answers written into the solving prompt are exactly the
\* tried answers of the current link, each once and in order.
C24_PromptListsTriedOnce ==
    pc = "submit" => prev_tried_str = previously_tried_answers

\* C25: the attempts on one link are bounded by the retry policy, so that no
\* server behaviour keeps the chain on a link forever: parse-failure retries
\* end after 5 in a row, so a link can only be kept by wrong-answer retries,
\* and of these the policy allows 3.
C25_AttemptsOnLinkBounded ==
    /\ retry_count <= MaxRetries
    /\ error_retry_count <= MaxErrorRetries

\* the least time at which the projected-time test fails with r retries made:
\* 180 * (r + 1) / (r + 2), which is 90, 120 and 135 for r = 0, 1, 2
ProjectedCut(r) == (180 * (r + 1)) \div (r + 2)

\* C27: the three-way condition holds only below 135 s, and with r retries made
\* only below 90, 120, 135 s (r = 0, 1, 2); it holds exactly when the count
\* test and the projected-time test hold, the 150 s test adding nothing. This
\* is so for every time and count, and a retry chosen through the condition
\* is chosen from such a time.
C27_RetryOnlyBelow135 ==
    [][WrongOutcome
          => /\ \A t \in 0..MaxElapsed, r \in 0..MaxRetryCount :
                  /\ QuickFailure(t, r) => (t < 135 /\ t < ProjectedCut(r))
                  /\ QuickFailure(t, r) <=> (r < 3 /\ t < ProjectedCut(r))
             /\ (decision' = "retry" /\ "next_url" \notin bound)
                  => (TimeTaken < 135 /\ TimeTaken < ProjectedCut(retry_count))]_vars

\* the third retry of the first link, chosen at 120 s
C27_Witness ==
    /\ decision = "retry"
    /\ pc = "fetch"
    /\ "next_url" \notin bound
    /\ retry_count = 3
    /\ elapsed = 120

----------------------------------------------------------------------------
(* Properties of start_periodic_upload *)

\* a step of start_periodic_upload, as opposed to one of the log handler
UploaderStep == upc' # upc \/ all_files' # all_files

\* C26: a rotated file that start_periodic_upload removes holds a content whose
\* upload succeeded, a file whose upload failed stays where it is, and the
\* active file is neither uploaded nor removed by it.
C26_DeleteOnlyAfterOwnUpload ==
    [][/\ (upc = "remove" /\ UploaderStep)
            => \A n \in LogNames :
                  (log_files[n] # NoFile /\ log_files'[n] = NoFile)
                      => (n # 0 /\ log_files[n] \in repo)
       /\ (upc = "upload" /\ UploaderStep)
            => /\ log_files' = log_files
               /\ repo' \subseteq repo \cup {log_files[Head(all_files)]}
               /\ Head(all_files) # 0]_vars

\* the names a fragment assigns
AssignedNames(c) == {c[i].name : i \in {j \in 1..Len(c) : c[j].op = "assign"}}

\* C28: whatever calls came before, a call leaves bound only names its own
\* fragment assigns, and a fragment that runs to completion without binding
\* `result` returns the no-result message, also when an earlier call bound
\* `result`.
C28_FreshNamespacePerCall ==
    [][/\ \A n \in Names : safe_globals'[n] # Unset => n \in AssignedNames(code')
       /\ (~ImportInCode(code') /\ RunsToCompletion(code')
              /\ "result" \notin AssignedNames(code'))
            => ret' = Returned(NoResultMessage)]_vars

\* two calls before bound `result`; the last one binds only x and gets the
\* no-result message
C28_Witness ==
    /\ bound_before
    /\ code = <<Assign("x", Lit(IntVal(12)))>>
    /\ safe_globals["result"] = Unset
    /\ ret = Returned(NoResultMessage)

====
